---- MODULE Spec2Model ----
(***************************************************************************)
(* A model of vs-docblockr: the PHP language module's token handlers, the  *)
(* parse run that dispatches tokens to them, the nullable-type transform,  *)
(* the language registry of the snippet handler and the renderer of the    *)
(* comment block.                                                          *)
(*                                                                         *)
(* Text is modelled as a sequence of one-character strings, so that the    *)
(* regular expressions of the source (leading `$`, leading `?`, the class  *)
(* name shape) are computed character by character.                        *)
(***************************************************************************)
EXTENDS Integers, Sequences, FiniteSets, TLC

(***************************************************************************)
(* Bounds of the model.                                                    *)
(***************************************************************************)
\* longest free-form token sequence handed to a parse run
MaxLen == 3
\* most parameters of a generated function declaration
MaxParams == 2
\* most tokens following the name in a generated class declaration
MaxRest == 1
\* longest type text handed to formatNullable
MaxTypeLen == 3
\* most modifier keywords in front of a declaration
MaxModifiers == 2
\* longest text handed to isType
MaxNameLen == 3
\* getParserFromLanguageID requests made
MaxRequests == 3
\* widest columnSpacing of a render configuration
MaxColumn == 2
\* renderBlock calls on one record
MaxRenders == 2

(***************************************************************************)
(* Text.                                                                   *)
(***************************************************************************)
\* JavaScript's undefined: a value that is no text at all
Undefined == <<"<undefined>">>

S_function == <<"f", "u", "n", "c", "t", "i", "o", "n">>
S_class == <<"c", "l", "a", "s", "s">>
S_trait == <<"t", "r", "a", "i", "t">>
S_public == <<"p", "u", "b", "l", "i", "c">>
S_static == <<"s", "t", "a", "t", "i", "c">>
S_protected == <<"p", "r", "o", "t", "e", "c", "t", "e", "d">>
S_private == <<"p", "r", "i", "v", "a", "t", "e">>
S_abstract == <<"a", "b", "s", "t", "r", "a", "c", "t">>
S_final == <<"f", "i", "n", "a", "l">>
S_self == <<"s", "e", "l", "f">>
S_array == <<"a", "r", "r", "a", "y">>
S_callable == <<"c", "a", "l", "l", "a", "b", "l", "e">>
S_bool == <<"b", "o", "o", "l">>
S_boolean == <<"b", "o", "o", "l", "e", "a", "n">>
S_float == <<"f", "l", "o", "a", "t">>
S_int == <<"i", "n", "t">>
S_integer == <<"i", "n", "t", "e", "g", "e", "r">>
S_string == <<"s", "t", "r", "i", "n", "g">>
S_iterable == <<"i", "t", "e", "r", "a", "b", "l", "e">>
S_stdClass == <<"s", "t", "d", "C", "l", "a", "s", "s">>
S_const == <<"c", "o", "n", "s", "t">>
S_mixed == <<"m", "i", "x", "e", "d">>
S_orNull == <<"|", "n", "u", "l", "l">>
S_undefined == <<"u", "n", "d", "e", "f", "i", "n", "e", "d">>
S_brackets == <<"[", "]">>
S_foo == <<"f", "o", "o">>
S_Bar == <<"B", "a", "r">>
S_arg1 == <<"$", "a", "r", "g", "1">>
S_arg2 == <<"$", "a", "r", "g", "2">>
S_five == <<"5">>

LowerCase ==
  {"a", "b", "c", "d", "e", "f", "g", "h", "i", "j", "k", "l", "m",
   "n", "o", "p", "q", "r", "s", "t", "u", "v", "w", "x", "y", "z"}
UpperCase ==
  {"A", "B", "C", "D", "E", "F", "G", "H", "I", "J", "K", "L", "M",
   "N", "O", "P", "Q", "R", "S", "T", "U", "V", "W", "X", "Y", "Z"}
Digit == {"0", "1", "2", "3", "4", "5", "6", "7", "8", "9"}

\* String(v): the text a regular expression tests when handed v
ToText(v) == IF v = Undefined THEN S_undefined ELSE v

\* JavaScript truthiness of a token value
Truthy(v) == v # Undefined /\ v # <<>>

(***************************************************************************)
(* The PHP grammar table.                                                  *)
(***************************************************************************)
Grammar ==
  [class |-> {S_class, S_trait},
   function |-> {S_function},
   modifiers |-> {S_public, S_static, S_protected, S_private, S_abstract, S_final},
   types |-> {S_self, S_array, S_callable, S_bool, S_boolean, S_float, S_int,
              S_integer, S_string, S_iterable, S_stdClass},
   variables |-> {S_const}]

\* the character class of grammar.identifier: [a-zA-Z0-9_$\x7f-\xff]
IdentifierChar == LowerCase \cup UpperCase \cup Digit \cup {"_", "$"}

\* grammar.is(value, category): membership in the named category
GrammarIs(value, category) == value \in Grammar[category]

\* grammar.is(value) with no category: membership in any category
GrammarIsAny(value) == \E category \in DOMAIN Grammar : value \in Grammar[category]

\* the token's text matches the identifier pattern
matchesIdentifier(value) ==
  /\ value # Undefined
  /\ Len(value) > 0
  /\ \A i \in 1..Len(value) : value[i] \in IdentifierChar

\* an identifier that is no reserved word of any grammar category
isName(value) == matchesIdentifier(value) /\ ~GrammarIsAny(value)

(***************************************************************************)
(* Symbols and tokens.                                                     *)
(***************************************************************************)
\* SymbolKind, and the unset kind of a fresh record
NoKind == ""
KindClass == "Class"
KindFunction == "Function"
KindVariable == "Variable"

\* a default record that claims no return value
EmptyTokens_notPresent ==
  [name |-> <<>>, type |-> NoKind, params |-> <<>>,
   return |-> [present |-> FALSE, type |-> Undefined]]

\* the record a parse run starts from
EmptyTokens ==
  [name |-> <<>>, type |-> NoKind, params |-> <<>>,
   return |-> [present |-> TRUE, type |-> Undefined]]

\* symbols.addParameter: a parameter with no default value; type stays
\* Undefined when the caller gives none
addParameter(symbols, name, type) ==
  [symbols EXCEPT !.params = Append(@, [name |-> name, val |-> <<>>, type |-> type])]

\* symbols.getLastParameterIndex
getLastParameterIndex(symbols) == Len(symbols.params)
\* symbols.getParameter(index) finds a parameter
hasParameter(symbols, index) == index \in 1..Len(symbols.params)

\* a lexical token: the label of its type and its value, Undefined for
\* punctuation
Tok(label, value) == [label |-> label, value |-> value]

(***************************************************************************)
(* The PHP language module.                                                *)
(***************************************************************************)
\* type.replace(/^\?/, '')
StripNullable(type) == IF Len(type) > 0 /\ type[1] = "?" THEN Tail(type) ELSE type

\* the nullable test and the replacement without the ^ anchor
formatNullable_unanchored(type, phpMixedUnionTypes) ==
  IF \E i \in 1..Len(type) : type[i] = "?"
  THEN IF phpMixedUnionTypes THEN S_mixed
       ELSE LET first == CHOOSE i \in 1..Len(type) :
                           type[i] = "?" /\ \A j \in 1..(i - 1) : type[j] # "?"
            IN SubSeq(type, 1, first - 1) \o SubSeq(type, first + 1, Len(type)) \o S_orNull
  ELSE type

formatNullable(type, phpMixedUnionTypes) ==
  IF Len(type) > 0 /\ type[1] = "?"
  THEN IF phpMixedUnionTypes THEN S_mixed ELSE StripNullable(type) \o S_orNull
  ELSE type

\* /^[a-zA-Z_\x80-\xff][a-zA-Z0-9_\x80-\xff]*$/
classExpression(text) ==
  /\ Len(text) > 0
  /\ text[1] \in LowerCase \cup UpperCase \cup {"_"}
  /\ \A i \in 2..Len(text) : text[i] \in LowerCase \cup UpperCase \cup Digit \cup {"_"}

\* isType without the test for reserved words
isType_unreserved(type) == GrammarIs(type, "types") \/ classExpression(ToText(type))

isType(type) ==
  LET notReserved ==
        \A item \in {"function", "class", "modifiers", "variables"} :
          ~GrammarIs(type, item)
  IN notReserved /\ (GrammarIs(type, "types") \/ classExpression(ToText(type)))

\* /^\$/
isVariableName(name) == LET text == ToText(name) IN Len(text) > 0 /\ text[1] = "$"

\* parseClass that captures the name and does not set done
parseClass_notDone(token, st) ==
  IF GrammarIs(token.value, "class")
  THEN [st EXCEPT !.symbols.type = KindClass, !.expectName = TRUE]
  ELSE IF st.expectName /\ st.symbols.type = KindClass /\ isName(token.value)
  THEN [st EXCEPT !.symbols.name = token.value, !.expectName = FALSE]
  ELSE st

parseClass(token, st) ==
  IF GrammarIs(token.value, "class")
  THEN [st EXCEPT !.symbols.type = KindClass, !.expectName = TRUE]
  ELSE IF st.expectName /\ st.symbols.type = KindClass /\ isName(token.value)
  THEN [st EXCEPT !.symbols.name = token.value, !.expectName = FALSE, !.done = TRUE]
  ELSE st

\* parseFunction that expects the return type after a colon inside the
\* parameter list instead of outside it
parseFunction_colonInside(token, st) ==
  IF GrammarIs(token.value, "function")
  THEN [st EXCEPT !.symbols.type = KindFunction, !.expectName = TRUE]
  ELSE IF st.symbols.type # KindFunction
  THEN st
  ELSE IF token.label = "["
  THEN [st EXCEPT !.symbols.return.type = ToText(@) \o S_brackets]
  ELSE IF st.expectName /\ isName(token.value)
  THEN [st EXCEPT !.symbols.name = token.value, !.expectName = FALSE]
  ELSE IF token.label = ":" /\ st.expectParameter
  THEN [st EXCEPT !.expectReturnType = TRUE]
  ELSE IF st.expectReturnType /\ matchesIdentifier(token.value)
  THEN [st EXCEPT !.expectReturnType = FALSE, !.symbols.return.type = token.value]
  ELSE st

\* parseFunction that takes whatever token follows the keyword as the name
parseFunction_anyName(token, st) ==
  IF GrammarIs(token.value, "function")
  THEN [st EXCEPT !.symbols.type = KindFunction, !.expectName = TRUE]
  ELSE IF st.symbols.type # KindFunction
  THEN st
  ELSE IF token.label = "["
  THEN [st EXCEPT !.symbols.return.type = ToText(@) \o S_brackets]
  ELSE IF st.expectName
  THEN [st EXCEPT !.symbols.name = token.value, !.expectName = FALSE]
  ELSE IF token.label = ":" /\ ~st.expectParameter
  THEN [st EXCEPT !.expectReturnType = TRUE]
  ELSE IF st.expectReturnType /\ matchesIdentifier(token.value)
  THEN [st EXCEPT !.expectReturnType = FALSE, !.symbols.return.type = token.value]
  ELSE st

parseFunction(token, st) ==
  IF GrammarIs(token.value, "function")
  THEN [st EXCEPT !.symbols.type = KindFunction, !.expectName = TRUE]
  ELSE IF st.symbols.type # KindFunction
  THEN st
  ELSE IF token.label = "["
  THEN [st EXCEPT !.symbols.return.type = ToText(@) \o S_brackets]
  ELSE IF st.expectName /\ isName(token.value)
  THEN [st EXCEPT !.symbols.name = token.value, !.expectName = FALSE]
  ELSE IF token.label = ":" /\ ~st.expectParameter
  THEN [st EXCEPT !.expectReturnType = TRUE]
  ELSE IF st.expectReturnType /\ matchesIdentifier(token.value)
  THEN [st EXCEPT !.expectReturnType = FALSE, !.symbols.return.type = token.value]
  ELSE st

\* parseParameterName with the negation of expectParameterType dropped
parseParameterName_notDropped(token, st) ==
  IF st.expectParameter /\ isVariableName(token.value) /\ st.expectParameterType
  THEN [st EXCEPT !.symbols = addParameter(@, token.value, Undefined)]
  ELSE st

parseParameterName(token, st) ==
  IF st.expectParameter /\ isVariableName(token.value) /\ ~st.expectParameterType
  THEN [st EXCEPT !.symbols = addParameter(@, token.value, Undefined)]
  ELSE st

parseParameterType(token, st) ==
  LET typed ==
        IF Truthy(token.value) /\ isType(token.value) /\ st.expectParameter
        THEN [st EXCEPT !.expectParameterType = TRUE,
                        !.symbols = addParameter(@, <<>>, token.value)]
        ELSE st
      index == getLastParameterIndex(typed.symbols)
  IN IF typed.expectParameterType /\ isVariableName(token.value)
     THEN IF hasParameter(typed.symbols, index)
          THEN [typed EXCEPT !.symbols.params[index].name = token.value]
          ELSE typed
     ELSE typed

parseParameters(token, st) ==
  IF st.symbols.type # KindFunction
  THEN st
  ELSE LET opened == IF token.label = "(" THEN [st EXCEPT !.expectParameter = TRUE] ELSE st
           parsed == parseParameterType(token, parseParameterName(token, opened))
       IN IF token.label = ")" THEN [parsed EXCEPT !.expectParameter = FALSE] ELSE parsed

parseVariable(token, st) ==
  LET direct ==
        IF st.symbols.type = NoKind /\ isVariableName(token.value)
        THEN [st EXCEPT !.symbols.name = token.value, !.symbols.type = KindVariable]
        ELSE st
  IN IF direct.symbols.type = NoKind /\ GrammarIs(token.value, "variables")
     THEN [direct EXCEPT !.symbols.type = KindVariable, !.expectName = TRUE]
     ELSE IF direct.symbols.type = KindVariable /\ direct.expectName /\ Truthy(token.value)
     THEN [direct EXCEPT !.symbols.name = token.value, !.expectName = FALSE]
     ELSE direct

(***************************************************************************)
(* The snippet handler's language registry.                                *)
(***************************************************************************)
Modules == {"C", "Java", "PHP", "SCSS", "TypeScript"}

\* Snippets.languageList as the class is loaded
LanguageListInit ==
  [c |-> "C", java |-> "Java", javascript |-> "TypeScript", php |-> "PHP",
   scss |-> "SCSS", typescript |-> "TypeScript", vue |-> "TypeScript"]

\* property names every object inherits from Object.prototype
ObjectPrototype == {"constructor", "toString", "hasOwnProperty"}

\* the language identifiers a request may carry
LanguageIDs ==
  DOMAIN LanguageListInit \cup ObjectPrototype \cup {"", "PHP", "python", "rust"}

\* key in obj: own and inherited properties
hasProperty(obj, key) == key \in DOMAIN obj \cup ObjectPrototype

\* obj.hasOwnProperty(key)
hasOwnProperty(obj, key) == key \in DOMAIN obj

\* obj[key]
getProperty(obj, key) ==
  IF key \in DOMAIN obj THEN obj[key]
  ELSE IF key \in ObjectPrototype THEN "inherited"
  ELSE "undefined"

(***************************************************************************)
(* The renderer: Parser.renderBlock and the tag renderers.                 *)
(***************************************************************************)
\* Settings of the language: the delimiters of a block and the end of line
S_commentOpen == <<"/", "*", "*">>
S_separator == <<" ", "*", " ">>
S_commentClose == <<" ", "*", "/">>
S_eos == <<"\n">>

S_param == <<"@", "p", "a", "r", "a", "m">>
S_return == <<"@", "r", "e", "t", "u", "r", "n">>
S_var == <<"@", "v", "a", "r">>
\* `[type]`
S_typeSeed == <<"[", "t", "y", "p", "e", "]">>
\* ` description]`
S_description == <<" ", "d", "e", "s", "c", "r", "i", "p", "t", "i", "o", "n", "]">>

\* what a call that throws a TypeError leaves its caller with
TypeError == <<"<TypeError>">>

\* Array(n + 1).join(' ')
Spaces(n) == [i \in 1..n |-> " "]

DigitChars == <<"0", "1", "2", "3", "4", "5", "6", "7", "8", "9">>

\* the decimal text of a number inside a template literal
RECURSIVE Decimal(_)
Decimal(n) ==
  IF n < 10 THEN <<DigitChars[n + 1]>>
  ELSE Decimal(n \div 10) \o <<DigitChars[(n % 10) + 1]>>

\* string.replace('$', '\\$'): a string pattern replaces the first match
escape(string) ==
  IF \E i \in 1..Len(string) : string[i] = "$"
  THEN LET first == CHOOSE i \in 1..Len(string) :
                      string[i] = "$" /\ \A j \in 1..(i - 1) : string[j] # "$"
       IN SubSeq(string, 1, first - 1) \o <<"\\", "$">>
            \o SubSeq(string, first + 1, Len(string))
  ELSE string

\* the placeholder closure, called when the counter stands at count
placeholder(count, string) ==
  <<"$", "{">> \o Decimal(count) \o <<":">> \o string \o <<"}">>

\* every parameter has the property, so that its length can be read
hasLengths(tokens, prop) ==
  \A i \in 1..Len(tokens.params) : hasOwnProperty(tokens.params[i], prop)

\* max(prop): the longest value of the property among the parameters
max(tokens, prop) ==
  LET lengths == {Len(tokens.params[i][prop]) : i \in 1..Len(tokens.params)}
  IN CHOOSE m \in lengths : \A n \in lengths : n <= m

\* a loop body that builds the description placeholder before the type
\* placeholder
renderParam_descFirst(tokens, param, column, count) ==
  LET diff == max(tokens, "name") - Len(param.name)
      pSpace == Spaces(column + diff)
      typeDiff == IF hasOwnProperty(param, "type")
                  THEN max(tokens, "type") - Len(param.type) ELSE 1
      tSpace == Spaces(column + typeDiff)
      cSpace == Spaces(column)
      name == escape(param.name)
      desc == placeholder(count, <<"[">> \o name \o S_description)
      type == IF hasOwnProperty(param, "type")
              THEN placeholder(count + 1, escape(param.type))
              ELSE placeholder(count + 1, S_typeSeed)
  IN [row |-> S_param \o cSpace \o <<" ">> \o type \o tSpace \o name \o pSpace \o desc,
      count |-> count + 2]

\* the body of the loop over the parameters: the row and the counter after it
renderParam(tokens, param, column, count) ==
  LET diff == max(tokens, "name") - Len(param.name)
      pSpace == Spaces(column + diff)
      typeDiff == IF hasOwnProperty(param, "type")
                  THEN max(tokens, "type") - Len(param.type) ELSE 1
      tSpace == Spaces(column + typeDiff)
      cSpace == Spaces(column)
      type == IF hasOwnProperty(param, "type")
              THEN placeholder(count, escape(param.type))
              ELSE placeholder(count, S_typeSeed)
      name == escape(param.name)
      desc == placeholder(count + 1, <<"[">> \o name \o S_description)
  IN [row |-> S_param \o cSpace \o <<" ">> \o type \o tSpace \o name \o pSpace \o desc,
      count |-> count + 2]

\* the loop over the parameters from the i-th on; max('type') reads the
\* length of a type that is not there when a parameter has none
RECURSIVE renderParams(_, _, _, _, _)
renderParams(tokens, i, blockList, count, column) ==
  IF i > Len(tokens.params)
  THEN [blockList |-> blockList, count |-> count, raised |-> FALSE]
  ELSE IF hasOwnProperty(tokens.params[i], "type") /\ ~hasLengths(tokens, "type")
  THEN [blockList |-> blockList, count |-> count, raised |-> TRUE]
  ELSE LET rendered == renderParam(tokens, tokens.params[i], column, count)
       IN renderParams(tokens, i + 1, Append(blockList, rendered.row),
                       rendered.count, column)

\* renderParamTags that does not test the kind of the record
renderParamTags_anyKind(tokens, blockList, count, column) ==
  IF Len(tokens.params) # 0
  THEN renderParams(tokens, 1, Append(blockList, <<>>), count, column)
  ELSE [blockList |-> blockList, count |-> count, raised |-> FALSE]

renderParamTags(tokens, blockList, count, column) ==
  IF Len(tokens.params) # 0 /\ tokens.type # KindVariable
  THEN renderParams(tokens, 1, Append(blockList, <<>>), count, column)
  ELSE [blockList |-> blockList, count |-> count, raised |-> FALSE]

\* renderReturnTag that does not read the defaultReturnTag setting
renderReturnTag_always(tokens, blockList, count, column, defaultReturnTag) ==
  IF tokens.return.present /\ tokens.type # KindVariable
  THEN LET type == IF Truthy(tokens.return.type)
                   THEN escape(tokens.return.type) ELSE S_typeSeed
       IN [blockList |-> blockList \o
                           <<<<>>, S_return \o Spaces(column) \o placeholder(count, type)>>,
           count |-> count + 1]
  ELSE [blockList |-> blockList, count |-> count]

renderReturnTag(tokens, blockList, count, column, defaultReturnTag) ==
  IF tokens.return.present /\ defaultReturnTag /\ tokens.type # KindVariable
  THEN LET type == IF Truthy(tokens.return.type)
                   THEN escape(tokens.return.type) ELSE S_typeSeed
       IN [blockList |-> blockList \o
                           <<<<>>, S_return \o Spaces(column) \o placeholder(count, type)>>,
           count |-> count + 1]
  ELSE [blockList |-> blockList, count |-> count]

renderVarTag(tokens, blockList, count, column) ==
  IF tokens.type = KindVariable
  THEN [blockList |-> blockList \o
                        <<<<>>, S_var \o Spaces(column) \o placeholder(count, S_typeSeed)>>,
        count |-> count + 1]
  ELSE [blockList |-> blockList, count |-> count]

\* lines.join(eos)
RECURSIVE Join(_, _)
Join(lines, eos) ==
  IF Len(lines) = 0 THEN <<>>
  ELSE IF Len(lines) = 1 THEN Head(lines)
  ELSE Head(lines) \o eos \o Join(Tail(lines), eos)

\* the block as one string, or TypeError when a tag renderer throws
renderBlock(tokens, column, defaultReturnTag) ==
  LET count == 1
      described ==
        <<placeholder(count, <<"[">> \o escape(tokens.name) \o S_description)>>
      params == renderParamTags(tokens, described, count + 1, column)
      returned == renderReturnTag(tokens, params.blockList, params.count, column,
                                  defaultReturnTag)
      var == renderVarTag(tokens, returned.blockList, returned.count, column)
      prefixed == [i \in 1..Len(var.blockList) |-> S_separator \o var.blockList[i]]
  IN IF params.raised THEN TypeError
     ELSE S_commentOpen \o S_eos \o Join(prefixed, S_eos) \o S_eos \o S_commentClose

(***************************************************************************)
(* The inputs of the model.                                                *)
(***************************************************************************)
\* all sequences over S of length at most n
SeqsUpTo(S, n) == UNION {[1..k -> S] : k \in 0..n}

T_function == Tok("function", S_function)
T_class == Tok("class", S_class)
T_trait == Tok("name", S_trait)
T_foo == Tok("name", S_foo)
T_Bar == Tok("name", S_Bar)
T_arg1 == Tok("name", S_arg1)
T_arg2 == Tok("name", S_arg2)
T_int == Tok("name", S_int)
T_boolean == Tok("name", S_boolean)
T_lparen == Tok("(", Undefined)
T_rparen == Tok(")", Undefined)
T_comma == Tok(",", Undefined)
T_colon == Tok(":", Undefined)
T_lbracket == Tok("[", Undefined)
T_rbracket == Tok("]", Undefined)
T_lbrace == Tok("{", Undefined)
T_eq == Tok("=", Undefined)
\* literals: a number, and strings whose value is the text between the quotes
T_five == Tok("num", S_five)
T_strFoo == Tok("string", S_foo)
T_strFunction == Tok("string", S_function)
T_strClass == Tok("string", S_class)
\* `const` is a keyword of the tokenizer, the modifiers are plain names
T_const == Tok("const", S_const)
T_public == Tok("name", S_public)
T_static == Tok("name", S_static)

NameTokens == {T_foo, T_Bar}
VariableTokens == {T_arg1, T_arg2}
TypeTokens == {T_int, T_boolean, T_Bar}
ClassKeywordTokens == {T_class, T_trait}
LiteralTokens == {T_five, T_strFoo, T_strFunction, T_strClass}
FreeTokens ==
  {T_function, T_class, T_foo, T_arg1, T_int, T_lparen, T_rparen, T_colon, T_lbracket}

\* p1 , p2 , ... , pN
RECURSIVE CommaSeparated(_)
CommaSeparated(ps) ==
  IF Len(ps) = 0 THEN <<>>
  ELSE IF Len(ps) = 1 THEN Head(ps)
  ELSE Head(ps) \o <<T_comma>> \o CommaSeparated(Tail(ps))

ReturnClauses ==
  {<<>>} \cup {<<T_colon, t>> : t \in TypeTokens}
         \cup {<<T_colon, t, T_lbracket, T_rbracket>> : t \in TypeTokens}

\* function <name>(<p1>, ..., <pN>) [: <T>] {
FunctionLine(name, ps, ret) ==
  <<T_function, name, T_lparen>> \o CommaSeparated(ps) \o <<T_rparen>> \o ret \o <<T_lbrace>>

\* a parameter: untyped, or a type and a name
ParameterForms == {<<v>> : v \in VariableTokens} \cup {<<T_int, T_arg1>>}

ParameterLists == SeqsUpTo(ParameterForms, MaxParams)

FunctionLines ==
  {FunctionLine(name, ps, ret) :
     name \in NameTokens, ps \in ParameterLists, ret \in ReturnClauses}

\* class <name> <whatever follows>
ClassLines ==
  {<<kw, name>> \o rest :
     kw \in ClassKeywordTokens, name \in NameTokens,
     rest \in SeqsUpTo(FreeTokens \cup {T_lbrace}, MaxRest)}

\* $var   and   $var = <literal>
VariableLines ==
  {<<v>> : v \in VariableTokens} \cup {<<v, T_eq, lit>> : v \in VariableTokens, lit \in LiteralTokens}

FreeLines == SeqsUpTo(FreeTokens, MaxLen)

ModifierTokens == {T_public, T_static}

\* the declarations that modifiers are put in front of; the last ones have
\* a modifier keyword where a name or a type is looked for
ModifierDeclarations ==
  {FunctionLine(T_foo, <<<<T_arg1>>, <<T_arg2>>>>, <<>>),
   FunctionLine(T_foo, <<<<T_int, T_arg1>>>>, <<T_colon, T_int>>),
   <<T_class, T_Bar, T_lbrace>>,
   <<T_arg1>>,
   <<T_const, T_foo, T_eq, T_five>>,
   <<T_function, T_static, T_lparen, T_rparen, T_lbrace>>,
   FunctionLine(T_foo, <<<<T_public, T_arg1>>>>, <<>>),
   <<T_class, T_public, T_lbrace>>,
   FunctionLine(T_foo, <<>>, <<T_colon, T_static>>),
   <<T_const, T_public, T_eq, T_five>>}

\* <modifier> ... <modifier> <declaration>
ModifierLines ==
  {prefix \o declaration :
     prefix \in SeqsUpTo(ModifierTokens, MaxModifiers),
     declaration \in ModifierDeclarations}

\* function <name>($var = <default>) {   with a literal, a class constant
\* `Bar::class`, an empty array `[]` or a constant `Bar` as the default value
DefaultValues ==
  {<<T_five>>, <<T_strFoo>>, <<T_Bar, T_colon, T_colon, T_class>>,
   <<T_lbracket, T_rbracket>>, <<T_Bar>>}

DefaultValueLines ==
  {FunctionLine(name, <<<<v, T_eq>> \o default>>, <<>>) :
     name \in NameTokens, v \in VariableTokens, default \in DefaultValues}

\* function ( class <name> <whatever follows>: the class name is captured
\* while a parameter list is open
DoneLines ==
  {<<T_function, T_lparen, T_class, name>> \o rest :
     name \in NameTokens, rest \in SeqsUpTo(FreeTokens, MaxRest)}

\* function <name>(): (<T>) {   a return type in parentheses
GroupedReturnLines ==
  {<<T_function, name, T_lparen, T_rparen, T_colon, T_lparen, t, T_rparen, T_lbrace>> :
     name \in NameTokens, t \in TypeTokens}

Lines ==
  FreeLines \cup FunctionLines \cup ClassLines \cup VariableLines \cup ModifierLines
    \cup DefaultValueLines \cup DoneLines \cup GroupedReturnLines

\* the records handed to renderBlock: a parameter carries a type or has
\* none, names and types differ in length, a name may hold several `$`
S_dollars == <<"$", "a", "$">>
RenderNames == {S_foo, S_dollars}
RenderParamNames == {S_arg1, S_dollars}
RenderTypes == {S_int, S_boolean}
RenderParams ==
  {[name |-> n, val |-> <<>>] : n \in RenderParamNames}
    \cup {[name |-> n, val |-> <<>>, type |-> t] : n \in RenderParamNames, t \in RenderTypes}
RenderReturns == [present : BOOLEAN, type : {Undefined, S_int}]
RenderRecords ==
  {[name |-> n, type |-> KindFunction, params |-> ps, return |-> r] :
     n \in RenderNames, ps \in SeqsUpTo(RenderParams, MaxParams), r \in RenderReturns}
    \cup {[name |-> n, type |-> k, params |-> ps, return |-> r] :
            n \in RenderNames, k \in {KindClass, KindVariable},
            ps \in SeqsUpTo(RenderParams, 1), r \in RenderReturns}

\* the texts handed to isType: every word of the grammar table, and every
\* text of letters, digits, `_` and `$`
NameChars == {"a", "B", "_", "1", "$"}
GrammarWords == UNION {Grammar[category] : category \in DOMAIN Grammar}
TypeCandidates == GrammarWords \cup SeqsUpTo(NameChars, MaxNameLen)

\* the category names handed to matchesGrammer
GrammerCategories == {"function", "class", "modifiers", "variables", "types"}

\* the type texts handed to formatNullable
TypeChars == {"?", "i", "|"}
TypeTexts == SeqsUpTo(TypeChars, MaxTypeLen)

(***************************************************************************)
(* State.                                                                  *)
(***************************************************************************)
VARIABLES
  st,            \* the parser instance: the expectation flags and the run's symbols
  pc,            \* "idle" | "scan" | "done": where tokenize is
  line,          \* the tokens of the line being tokenized
  pos,           \* index of the next token
  carried,       \* the instance's flags as the latest run found them
  result,        \* the record the latest finished run returned
  languageList,  \* Snippets.languageList
  request,       \* the latest getParserFromLanguageID call and its outcome
  constructed,   \* the parsers constructed so far, by module
  fn,            \* a formatNullable call: its arguments and result
  rb,            \* renderBlock calls: the record, the configuration, the blocks returned
  cl             \* a classifier call: isType or matchesGrammer, its arguments and result

vars ==
  <<st, pc, line, pos, carried, result, languageList, request, constructed, fn, rb, cl>>

parserVars == <<st, pc, line, pos, carried, result>>
snippetVars == <<languageList, request, constructed>>

Flags(s) ==
  [expectName |-> s.expectName, expectParameter |-> s.expectParameter,
   expectParameterType |-> s.expectParameterType,
   expectReturnType |-> s.expectReturnType, done |-> s.done]

\* the symbols and flags a parse run starts from
FreshState ==
  [symbols |-> EmptyTokens, expectName |-> FALSE, expectParameter |-> FALSE,
   expectParameterType |-> FALSE, expectReturnType |-> FALSE, done |-> FALSE]

ParserInit ==
  /\ st = FreshState
  /\ pc = "idle"
  /\ line = <<>>
  /\ pos = 1
  /\ carried = Flags(FreshState)
  /\ result = EmptyTokens

SnippetsInit ==
  /\ languageList = LanguageListInit
  /\ request = [language |-> "", outcome |-> "none", parser |-> "none", number |-> 0]
  /\ constructed = <<>>

NoCall == [type |-> <<>>, phpMixedUnionTypes |-> FALSE, result |-> Undefined]

\* no classifier call
NoClassifierCall == [op |-> "none", token |-> <<>>, category |-> "", called |-> FALSE,
                     result |-> FALSE]

\* no renderBlock call: the default record under the default configuration
NoRender ==
  [tokens |-> EmptyTokens, column |-> 2, defaultReturnTag |-> TRUE, out |-> <<>>]

(***************************************************************************)
(* A parse run: tokenize(code).                                            *)
(***************************************************************************)
\* one token goes to the four handlers of the language module, in order
Dispatch(token, s) ==
  parseVariable(token, parseParameters(token, parseFunction(token, parseClass(token, s))))

\* a loop that hands a token to all four handlers after done as before it
Step_dispatchAll(token, s) == Dispatch(token, s)

\* what the loop does with one token: once done, inside a parameter list
\* that is still open, only the parameter handler goes on
Step(token, s) == IF s.done THEN parseParameters(token, s) ELSE Dispatch(token, s)

\* the transform over a captured type; a type that was not captured stays so
FormatType(type, phpMixedUnionTypes) ==
  IF type = Undefined THEN Undefined ELSE formatNullable(type, phpMixedUnionTypes)

\* the record as the run returns it: a variable has no return value, and
\* every captured type goes through formatNullable
Finish(symbols, phpMixedUnionTypes) ==
  [symbols EXCEPT
     !.return.present = IF symbols.type = KindVariable THEN FALSE ELSE @,
     !.return.type = FormatType(@, phpMixedUnionTypes),
     !.params = [i \in 1..Len(symbols.params) |->
                   [symbols.params[i] EXCEPT !.type = FormatType(@, phpMixedUnionTypes)]]]

\* a reset that allocates the record and leaves the flags as they were
ResetKeepingFlags(s) == [s EXCEPT !.symbols = EmptyTokens]

\* what tokenize does first: a fresh record, every expectation flag cleared
Reset(s) == FreshState

\* tokenize is called with a line: a fresh record and fresh flags
TokenizeBegin ==
  /\ pc = "idle"
  /\ \E l \in Lines : line' = l
  /\ carried' = Flags(st)
  /\ st' = Reset(st)
  /\ pos' = 1
  /\ pc' = "scan"
  /\ result' = EmptyTokens
  /\ UNCHANGED <<snippetVars, fn, rb, cl>>

\* the next token is dispatched to the handlers
ParseToken ==
  /\ pc = "scan"
  /\ pos <= Len(line)
  /\ ~(st.done /\ ~st.expectParameter)
  /\ st' = Step(line[pos], st)
  /\ pos' = pos + 1
  /\ UNCHANGED <<pc, line, carried, result, snippetVars, fn, rb, cl>>

\* done, and no parameter list open: the remaining tokens are skipped
SkipRemaining ==
  /\ pc = "scan"
  /\ pos <= Len(line)
  /\ st.done /\ ~st.expectParameter
  /\ pos' = Len(line) + 1
  /\ UNCHANGED <<st, pc, line, carried, result, snippetVars, fn, rb, cl>>

\* the tokens are exhausted: the record is returned
TokenizeEnd ==
  /\ pc = "scan"
  /\ pos > Len(line)
  /\ \E phpMixedUnionTypes \in BOOLEAN :
       result' = Finish(st.symbols, phpMixedUnionTypes)
  /\ pc' = "done"
  /\ UNCHANGED <<st, line, pos, carried, snippetVars, fn, rb, cl>>

\* the caller takes the record; the run's line and symbols are gone, the
\* instance and its flags stay for the next call
TokenizeReturn ==
  /\ pc = "done"
  /\ pc' = "idle"
  /\ line' = <<>>
  /\ pos' = 1
  /\ result' = EmptyTokens
  /\ st' = [st EXCEPT !.symbols = EmptyTokens]
  /\ UNCHANGED <<carried, snippetVars, fn, rb, cl>>

(***************************************************************************)
(* Snippets.getParserFromLanguageID(language).                             *)
(***************************************************************************)
getParserFromLanguageID(language) ==
  /\ request.number < MaxRequests
  /\ IF ~hasOwnProperty(languageList, language)
     THEN /\ request' = [language |-> language, outcome |-> "unsupported",
                          parser |-> "none", number |-> request.number + 1]
          /\ UNCHANGED constructed
     ELSE LET module == getProperty(languageList, language)
          IN IF module \in Modules
             THEN /\ request' = [language |-> language, outcome |-> "returned",
                                  parser |-> module, number |-> request.number + 1]
                  /\ constructed' = Append(constructed, module)
             ELSE \* new on a value that is no constructor
                  /\ request' = [language |-> language, outcome |-> "TypeError",
                                  parser |-> "none", number |-> request.number + 1]
                  /\ UNCHANGED constructed
  /\ UNCHANGED <<languageList, parserVars, fn, rb, cl>>

GetParser == \E language \in LanguageIDs : getParserFromLanguageID(language)

(***************************************************************************)
(* PHP.formatNullable(type) under a configuration.                         *)
(***************************************************************************)
FormatNullableCall ==
  /\ fn.result = Undefined
  /\ fn' = [fn EXCEPT !.result = formatNullable(fn.type, fn.phpMixedUnionTypes)]
  /\ UNCHANGED <<parserVars, snippetVars, rb, cl>>

(***************************************************************************)
(* Parser.renderBlock(tokens) under a configuration.                       *)
(***************************************************************************)
\* a renderBlock that takes the parameters off the record as it renders them
RenderBlockCall_consuming ==
  /\ Len(rb.out) < MaxRenders
  /\ rb' = [rb EXCEPT
              !.out = Append(@, renderBlock(rb.tokens, rb.column, rb.defaultReturnTag)),
              !.tokens.params = <<>>]
  /\ UNCHANGED <<parserVars, snippetVars, fn, cl>>

RenderBlockCall ==
  /\ Len(rb.out) < MaxRenders
  /\ rb' = [rb EXCEPT
              !.out = Append(@, renderBlock(rb.tokens, rb.column, rb.defaultReturnTag))]
  /\ UNCHANGED <<parserVars, snippetVars, fn, cl>>

(***************************************************************************)
(* PHP.isType(type).                                                       *)
(***************************************************************************)
IsTypeCall ==
  /\ cl.op = "isType"
  /\ ~cl.called
  /\ cl' = [cl EXCEPT !.called = TRUE, !.result = isType(cl.token)]
  /\ UNCHANGED <<parserVars, snippetVars, fn, rb>>

(***************************************************************************)
(* Parser.matchesGrammer(token, type) over settings.grammer.               *)
(***************************************************************************)
\* the text of the identifier property of settings.grammer
S_identifier == <<"[", "a", "-", "z", "A", "-", "Z", "_", "$", "0", "-", "9", "]">>

\* a string-valued and an array-valued property of settings.grammer
StringProperty(text) == [array |-> FALSE, value |-> text, items |-> {}]
ArrayProperty(texts) == [array |-> TRUE, value |-> <<>>, items |-> texts]

\* settings.grammer: function, class and identifier hold one string each,
\* modifiers, variables and types hold arrays of strings
Grammer ==
  [function |-> StringProperty(S_function),
   class |-> StringProperty(S_class),
   identifier |-> StringProperty(S_identifier),
   modifiers |-> ArrayProperty(Grammar["modifiers"]),
   variables |-> ArrayProperty(Grammar["variables"]),
   types |-> ArrayProperty(Grammar["types"])]

\* property === token: an array is never strictly equal to a string
StrictEquals(property, token) == ~property.array /\ property.value = token

\* the loop over every property of settings.grammer
matchesAnyProperty(token) ==
  \E grammer \in DOMAIN Grammer : StrictEquals(Grammer[grammer], token)

\* type is "" when the caller gives no type
matchesGrammer(token, type) ==
  IF type \in DOMAIN Grammer
  THEN IF type \in {"modifiers", "variables", "types"}
       THEN IF token \in Grammer[type].items
            THEN TRUE
            ELSE matchesAnyProperty(token)
       ELSE StrictEquals(Grammer[type], token)
  ELSE matchesAnyProperty(token)

MatchesGrammerCall ==
  /\ cl.op = "matchesGrammer"
  /\ ~cl.called
  /\ cl' = [cl EXCEPT !.called = TRUE, !.result = matchesGrammer(cl.token, cl.category)]
  /\ UNCHANGED <<parserVars, snippetVars, fn, rb>>

(***************************************************************************)
(* Specifications.                                                         *)
(***************************************************************************)
Init == ParserInit /\ SnippetsInit /\ fn = NoCall /\ rb = NoRender /\ cl = NoClassifierCall

Next == TokenizeBegin \/ ParseToken \/ SkipRemaining \/ TokenizeEnd \/ TokenizeReturn

\* parse runs on one parser instance
Spec == Init /\ [][Next]_vars

\* requests to the language registry
SnippetsSpec == Init /\ [][GetParser]_vars

NullableInit ==
  /\ ParserInit
  /\ SnippetsInit
  /\ fn \in [type : TypeTexts, phpMixedUnionTypes : BOOLEAN, result : {Undefined}]
  /\ rb = NoRender
  /\ cl = NoClassifierCall

\* formatNullable on every type text and either policy
NullableSpec == NullableInit /\ [][FormatNullableCall]_vars

RenderInit ==
  /\ ParserInit
  /\ SnippetsInit
  /\ fn = NoCall
  /\ rb \in [tokens : RenderRecords, column : 0..MaxColumn, defaultReturnTag : BOOLEAN,
              out : {<<>>}]
  /\ cl = NoClassifierCall

IsTypeInit ==
  /\ ParserInit
  /\ SnippetsInit
  /\ fn = NoCall
  /\ rb = NoRender
  /\ cl \in [op : {"isType"}, token : TypeCandidates, category : {""}, called : {FALSE},
              result : {FALSE}]

\* isType on every candidate text
IsTypeSpec == IsTypeInit /\ [][IsTypeCall]_vars

\* what a parser that has tokenized nothing yet makes of a line
RECURSIVE Scan(_, _, _)
Scan(l, i, s) ==
  IF i > Len(l) \/ (s.done /\ ~s.expectParameter) THEN s
  ELSE Scan(l, i + 1, Step(l[i], s))

\* the record of a parse run as renderBlock reads it: a parameter whose type
\* was not captured has no type property
AsTokens(symbols) ==
  [symbols EXCEPT
     !.params = [i \in 1..Len(symbols.params) |->
                   IF symbols.params[i].type = Undefined
                   THEN [name |-> symbols.params[i].name, val |-> symbols.params[i].val]
                   ELSE symbols.params[i]]]

\* the records tokenize returns for the lines of the model
ParsedRecords ==
  {AsTokens(Finish(Scan(l, 1, FreshState).symbols, phpMixedUnionTypes)) :
     l \in Lines, phpMixedUnionTypes \in BOOLEAN}

RenderParsedInit ==
  /\ ParserInit
  /\ SnippetsInit
  /\ fn = NoCall
  /\ rb \in [tokens : ParsedRecords, column : 0..MaxColumn, defaultReturnTag : BOOLEAN,
              out : {<<>>}]
  /\ cl = NoClassifierCall

\* renderBlock(tokenize(line)) on every line of the model
RenderParsedSpec == RenderParsedInit /\ [][RenderBlockCall]_vars

MatchesGrammerInit ==
  /\ ParserInit
  /\ SnippetsInit
  /\ fn = NoCall
  /\ rb = NoRender
  /\ cl \in [op : {"matchesGrammer"}, token : TypeCandidates,
              category : GrammerCategories \cup {""}, called : {FALSE}, result : {FALSE}]

\* matchesGrammer on every candidate text, with each category and with none
MatchesGrammerSpec == MatchesGrammerInit /\ [][MatchesGrammerCall]_vars

\* renderBlock on every record and configuration, called again and again
RenderSpec == RenderInit /\ [][RenderBlockCall]_vars

(***************************************************************************)
(* Properties.                                                             *)
(***************************************************************************)
\* the values of the tokens of a line
TokenValues(l) == {l[i].value : i \in 1..Len(l)} \ {Undefined}

\* the untyped parameter lists of the generated function declarations
UntypedLists == SeqsUpTo({<<v>> : v \in VariableTokens}, MaxParams)

\* C1: tokenizing `function <name>(<p1>, ..., <pN>) {` with N >= 0 untyped
\* parameters yields kind Function, the name, exactly N parameters in source
\* order, each with its name, no type and an empty default value, and
\* returnInfo.present = true.
C1_UntypedParameters ==
  (pc = "done" /\ line \in FunctionLines) =>
    \A name \in NameTokens, ps \in UntypedLists :
      line = FunctionLine(name, ps, <<>>) =>
        /\ result.type = KindFunction
        /\ result.name = name.value
        /\ Len(result.params) = Len(ps)
        /\ \A i \in 1..Len(ps) :
             result.params[i] = [name |-> ps[i][1].value, val |-> <<>>, type |-> Undefined]
        /\ result.return.present = TRUE

\* `function foo($arg1, $arg2) {` has been tokenized into two parameters
C1_Witness ==
  /\ pc = "done"
  /\ line = FunctionLine(T_foo, <<<<T_arg1>>, <<T_arg2>>>>, <<>>)
  /\ Len(result.params) = 2
  /\ result.params[2].name = S_arg2

\* C2: tokenizing a class declaration (`class` or `trait`, then an
\* identifier) yields kind Class, the name of the identifier that follows the
\* keyword and no parameters, whatever tokens follow the name.
C2_ClassDeclaration ==
  (pc = "done" /\ line \in ClassLines) =>
    /\ result.type = KindClass
    /\ result.name = line[2].value
    /\ result.params = <<>>

\* `trait Bar function` has been tokenized: a function keyword follows the name
C2_Witness ==
  /\ pc = "done"
  /\ line = <<T_trait, T_Bar, T_function>>
  /\ result.name = S_Bar

\* C3: tokenizing a line that starts with a `$` variable name, with no
\* initializer or a literal initializer, yields kind Variable, that name, no
\* parameters and returnInfo.present = false.
C3_VariableDeclaration ==
  (pc = "done" /\ line \in VariableLines) =>
    /\ result.type = KindVariable
    /\ result.name = line[1].value
    /\ result.params = <<>>
    /\ result.return.present = FALSE

\* C4: tokenizing `function <name>(...) : <T>` yields returnInfo.present =
\* true and returnInfo.type = <T>; with an array suffix after <T> the
\* captured type is <T> followed by `[]`.
C4_ReturnType ==
  (pc = "done" /\ line \in FunctionLines) =>
    \A name \in NameTokens, ps \in ParameterLists, t \in TypeTokens :
      /\ line = FunctionLine(name, ps, <<T_colon, t>>) =>
           (result.return.present = TRUE /\ result.return.type = t.value)
      /\ line = FunctionLine(name, ps, <<T_colon, t, T_lbracket, T_rbracket>>) =>
           (result.return.present = TRUE /\ result.return.type = t.value \o <<"[", "]">>)

\* `function foo($arg1): int[] {` has been tokenized, its return type captured
C4_Witness ==
  /\ pc = "done"
  /\ line = FunctionLine(T_foo, <<<<T_arg1>>>>, <<T_colon, T_int, T_lbracket, T_rbracket>>)
  /\ result.return.type = <<"i", "n", "t", "[", "]">>

\* the registered language identifiers
RegisteredIDs == {"c", "java", "javascript", "php", "scss", "typescript", "vue"}

\* C5: getParserFromLanguageID(id) fails with the unsupported-language error
\* exactly when id is not a registered identifier; for a registered
\* identifier it returns a parser of the module registered under it; the
\* failing path constructs no parser and the registry never changes.
C5_UnsupportedLanguage ==
  /\ [](request.outcome # "none" =>
          /\ (request.outcome = "unsupported") <=> (request.language \notin RegisteredIDs)
          /\ request.language \in RegisteredIDs =>
               /\ request.outcome = "returned"
               /\ request.parser = LanguageListInit[request.language]
               /\ constructed[Len(constructed)] = request.parser
          /\ languageList = LanguageListInit)
  /\ [][/\ request'.outcome = "unsupported" => constructed' = constructed
        /\ languageList' = languageList]_vars

\* an unsupported identifier was refused after a parser had been constructed
C5_Witness ==
  /\ request.outcome = "unsupported"
  /\ request.language = "python"
  /\ Len(constructed) > 0

\* C6: for every token sequence (the empty one, one with an unterminated
\* parameter list, one with punctuation tokens that carry no value) the run
\* can always take its next step and ends with a record whose name is empty
\* or a token's value, whose parameters took their names and types from
\* tokens, and which has no parameter when no variable or type token occurred.
C6_NeverRaises ==
  /\ pc = "scan" => ENABLED (ParseToken \/ SkipRemaining \/ TokenizeEnd)
  /\ pc = "done" =>
       /\ result.name \in TokenValues(line) \cup {<<>>}
       /\ \A i \in 1..Len(result.params) :
            /\ result.params[i].name \in TokenValues(line) \cup {<<>>}
            /\ result.params[i].type \in TokenValues(line) \cup {Undefined}
       /\ TokenValues(line) = {} => (result.name = <<>> /\ result.params = <<>>)

\* `function foo (` has been tokenized: the parameter list never closed
C6_Witness ==
  /\ pc = "done"
  /\ line = <<T_function, T_foo, T_lparen>>
  /\ st.expectParameter
  /\ result.params = <<>>

C9_ClassNotPresent ==
  (pc = "done" /\ line = <<T_class, T_Bar, T_lbrace>>) => result.return.present = FALSE

\* C10: formatNullable(type) is `mixed` for a type that begins with `?`
\* under the mixed-type policy, the type without its leading `?` followed by
\* `|null` under the other policy, and the type itself when it does not
\* begin with `?`.
C10_FormatNullable ==
  fn.result # Undefined =>
    IF Len(fn.type) >= 1 /\ fn.type[1] = "?"
    THEN IF fn.phpMixedUnionTypes
         THEN fn.result = <<"m", "i", "x", "e", "d">>
         ELSE fn.result = SubSeq(fn.type, 2, Len(fn.type)) \o <<"|", "n", "u", "l", "l">>
    ELSE fn.result = fn.type

\* `?i` has been rewritten to `i|null`
C10_Witness ==
  /\ fn.type = <<"?", "i">>
  /\ ~fn.phpMixedUnionTypes
  /\ fn.result = <<"i", "|", "n", "u", "l", "l">>

(***************************************************************************)
(* Properties of the rendered block.                                       *)
(***************************************************************************)
\* the lines of a block: the text between the ends of line
RECURSIVE SplitLines(_)
SplitLines(text) ==
  IF \E i \in 1..Len(text) : text[i] = "\n"
  THEN LET first == CHOOSE i \in 1..Len(text) :
                      text[i] = "\n" /\ \A j \in 1..(i - 1) : text[j] # "\n"
       IN <<SubSeq(text, 1, first - 1)>> \o SplitLines(SubSeq(text, first + 1, Len(text)))
  ELSE <<text>>

\* text after its first colon
AfterColon(text) ==
  LET first == CHOOSE i \in 1..Len(text) : text[i] = ":" /\ \A j \in 1..(i - 1) : text[j] # ":"
  IN SubSeq(text, first + 1, Len(text))

\* a line as the editor displays it: each placeholder replaced by its seed
\* text, an escaped `$` shown as `$`
RECURSIVE Display(_)
Display(text) ==
  IF Len(text) = 0 THEN <<>>
  ELSE IF Len(text) >= 2 /\ text[1] = "\\" /\ text[2] = "$"
  THEN <<"$">> \o Display(SubSeq(text, 3, Len(text)))
  ELSE IF Len(text) >= 2 /\ text[1] = "$" /\ text[2] = "{"
  THEN Display(AfterColon(text))
  ELSE IF text[1] = "}" THEN Display(Tail(text))
  ELSE <<text[1]>> \o Display(Tail(text))

\* text begins with prefix
StartsWith(text, prefix) ==
  Len(text) >= Len(prefix) /\ SubSeq(text, 1, Len(prefix)) = prefix

\* the k-th smallest member of a set of positions, 0 if it has fewer
Nth(positions, k) ==
  LET kth == {i \in positions : Cardinality({j \in positions : j <= i}) = k}
  IN IF kth = {} THEN 0 ELSE CHOOSE i \in kth : TRUE

\* the positions where a placeholder opens: an unescaped `$` before `{`
PlaceholderStarts(text) ==
  {i \in 1..(Len(text) - 1) :
     text[i] = "$" /\ text[i + 1] = "{" /\ (i = 1 \/ text[i - 1] # "\\")}

\* the column at which the character at position i of a line is displayed
Column(text, i) == Len(Display(SubSeq(text, 1, i - 1))) + 1

\* the columns where the fields of a tag row start: the type placeholder,
\* the name that follows it, the description placeholder (0: no such field)
TypeColumn(row) ==
  LET at == Nth(PlaceholderStarts(row), 1) IN IF at = 0 THEN 0 ELSE Column(row, at)
NameColumn(row) ==
  LET closed == Nth({i \in 1..Len(row) : row[i] = "}"}, 1)
      at == Nth({i \in 1..Len(row) : i > closed /\ row[i] # " "}, 1)
  IN IF closed = 0 \/ at = 0 THEN 0 ELSE Column(row, at)
DescriptionColumn(row) ==
  LET at == Nth(PlaceholderStarts(row), 2) IN IF at = 0 THEN 0 ELSE Column(row, at)

\* the lines of a block that carry the tag, without the per-line prefix
TagRows(block, tag) ==
  LET lines == SplitLines(block)
  IN SelectSeq([i \in 1..Len(lines) |->
                  IF StartsWith(lines[i], S_separator)
                  THEN SubSeq(lines[i], Len(S_separator) + 1, Len(lines[i]))
                  ELSE <<>>],
               LAMBDA row : StartsWith(row, tag))

\* C11: for every record with at least one parameter and every columnSpacing
\* >= 0 the block has one `@param` row per parameter, and in the displayed
\* rows the type field, the name field and the description field each start
\* at the same column in every row, whether or not each parameter has a
\* captured type.
C11_ParamRowsAligned ==
  \A k \in 1..Len(rb.out) :
    (Len(rb.tokens.params) >= 1 /\ rb.tokens.type # KindVariable) =>
      LET rows == TagRows(rb.out[k], S_param)
      IN /\ Len(rows) = Len(rb.tokens.params)
         /\ \A i \in 1..Len(rows) :
              /\ TypeColumn(rows[i]) # 0
              /\ NameColumn(rows[i]) # 0
              /\ DescriptionColumn(rows[i]) # 0
              /\ TypeColumn(rows[i]) = TypeColumn(rows[1])
              /\ NameColumn(rows[i]) = NameColumn(rows[1])
              /\ DescriptionColumn(rows[i]) = DescriptionColumn(rows[1])

\* the number a placeholder that opens at position i carries, as text
PlaceholderNumber(text, i) ==
  LET rest == SubSeq(text, i + 2, Len(text))
      colon == CHOOSE j \in 1..Len(rest) : rest[j] = ":" /\ \A h \in 1..(j - 1) : rest[h] # ":"
  IN SubSeq(rest, 1, colon - 1)

EndsWith(text, suffix) ==
  Len(text) >= Len(suffix)
    /\ SubSeq(text, Len(text) - Len(suffix) + 1, Len(text)) = suffix

\* a line of a block without the per-line prefix
Unprefixed(blockLine) == SubSeq(blockLine, Len(S_separator) + 1, Len(blockLine))

\* C13: the block of a Function record with P >= 1 parameters,
\* returnInfo.present = true and the return tag enabled has exactly these
\* lines, joined by the end of line: the comment-open delimiter, the
\* description line, a blank line, P `@param` lines in parameter order, a
\* blank line, one `@return` line, the comment-close delimiter; every line
\* between the delimiters carries the per-line prefix.
C13_BlockLines ==
  \A k \in 1..Len(rb.out) :
    (/\ rb.tokens.type = KindFunction
     /\ Len(rb.tokens.params) >= 1
     /\ rb.tokens.return.present
     /\ rb.defaultReturnTag) =>
      LET lines == SplitLines(rb.out[k])
          P == Len(rb.tokens.params)
      IN /\ Len(lines) = P + 6
         /\ lines[1] = S_commentOpen
         /\ lines[P + 6] = S_commentClose
         /\ \A i \in 2..(P + 5) : StartsWith(lines[i], S_separator)
         /\ Unprefixed(lines[2]) =
              placeholder(1, <<"[">> \o escape(rb.tokens.name) \o S_description)
         /\ Unprefixed(lines[3]) = <<>>
         /\ \A i \in 1..P :
              /\ StartsWith(Unprefixed(lines[3 + i]), S_param)
              /\ EndsWith(lines[3 + i],
                          <<"[">> \o escape(rb.tokens.params[i].name) \o S_description
                            \o <<"}">>)
         /\ Unprefixed(lines[P + 4]) = <<>>
         /\ StartsWith(Unprefixed(lines[P + 5]), S_return)

\* `[return description]`
S_returnDescription == <<"[", "r", "e", "t", "u", "r", "n">> \o S_description

\* the seed text of the placeholder that opens at position i
PlaceholderSeed(text, i) ==
  LET rest == AfterColon(SubSeq(text, i, Len(text)))
      closed == Nth({j \in 1..Len(rest) : rest[j] = "}"}, 1)
  IN SubSeq(rest, 1, closed - 1)

\* C14: in the rendered block of a function with parameters the `@return`
\* row carries a type placeholder followed by a `[return description]`
\* placeholder, and that description starts at the column where the
\* descriptions of the `@param` rows start.
C14_ReturnDescription ==
  \A k \in 1..Len(rb.out) :
    (/\ rb.out[k] # TypeError
     /\ rb.tokens.type = KindFunction
     /\ Len(rb.tokens.params) >= 1
     /\ rb.tokens.return.present
     /\ rb.defaultReturnTag) =>
      LET rows == TagRows(rb.out[k], S_return)
          params == TagRows(rb.out[k], S_param)
      IN /\ Len(rows) = 1
         /\ Cardinality(PlaceholderStarts(rows[1])) = 2
         /\ PlaceholderSeed(rows[1], Nth(PlaceholderStarts(rows[1]), 2)) = S_returnDescription
         /\ DescriptionColumn(rows[1]) = DescriptionColumn(params[1])

\* the numbers of the placeholders of a text, in the order they occur
PlaceholderNumbers(text) ==
  LET starts == PlaceholderStarts(text)
  IN [i \in 1..Cardinality(starts) |-> PlaceholderNumber(text, Nth(starts, i))]

\* C15: in every rendered block the placeholders are numbered 1, 2, 3, ...
\* in the order they occur, with no gap and no repeat: the description
\* placeholder is 1, in each `@param` row the type placeholder precedes the
\* description placeholder, and the type placeholder of the `@return` or
\* `@var` row has the highest number.
C15_PlaceholdersNumbered ==
  \A k \in 1..Len(rb.out) :
    rb.out[k] # TypeError =>
      LET block == rb.out[k]
          lines == SplitLines(block)
          numbers == PlaceholderNumbers(block)
          params == TagRows(block, S_param)
          last == TagRows(block, S_return) \o TagRows(block, S_var)
      IN /\ \A i \in 1..Len(numbers) : numbers[i] = Decimal(i)
         /\ PlaceholderNumbers(lines[2]) = <<Decimal(1)>>
         /\ \A i \in 1..Len(params) :
              /\ PlaceholderNumbers(params[i]) = <<Decimal(2 * i), Decimal(2 * i + 1)>>
              /\ PlaceholderSeed(params[i], Nth(PlaceholderStarts(params[i]), 2))
                   = <<"[">> \o escape(rb.tokens.params[i].name) \o S_description
         /\ \A i \in 1..Len(last) :
              PlaceholderNumbers(last[i]) = <<Decimal(Len(numbers))>>

\* a function with two parameters and a return tag has been rendered: six
\* placeholders
C15_Witness ==
  /\ Len(rb.out) >= 1
  /\ rb.out[1] # TypeError
  /\ Len(rb.tokens.params) = 2
  /\ PlaceholderNumbers(rb.out[1]) = [i \in 1..6 |-> Decimal(i)]
  /\ Len(TagRows(rb.out[1], S_return)) = 1

\* C16: every `$` of the rendered block that comes from the record (the
\* symbol name, a parameter name, a parameter type, the return type) is
\* preceded by a backslash, however many `$` a name holds; the only `$` not
\* preceded by a backslash are those that open a numbered placeholder.
C16_DollarsEscaped ==
  \A k \in 1..Len(rb.out) :
    rb.out[k] # TypeError =>
      LET block == rb.out[k]
      IN \A i \in 1..Len(block) :
           block[i] = "$" =>
             \/ i > 1 /\ block[i - 1] = "\\"
             \/ /\ i \in PlaceholderStarts(block)
                /\ \E n \in 1..Cardinality(PlaceholderStarts(block)) :
                     PlaceholderNumber(block, i) = Decimal(n)

(***************************************************************************)
(* Properties of a parse run, continued.                                   *)
(***************************************************************************)
\* a line without the modifier keywords in front of it
RECURSIVE Unmodified(_)
Unmodified(l) ==
  IF Len(l) > 0 /\ GrammarIs(Head(l).value, "modifiers") THEN Unmodified(Tail(l)) ELSE l

\* C17: a declaration with any sequence of modifier keywords in front of it
\* yields the record of the declaration without them, and no modifier
\* keyword is ever recorded as the name, as a parameter's name or type, or
\* as the return type.
C17_ModifiersIgnored ==
  pc = "done" =>
    /\ line \in ModifierLines =>
         \E phpMixedUnionTypes \in BOOLEAN :
           result = Finish(Scan(Unmodified(line), 1, FreshState).symbols, phpMixedUnionTypes)
    /\ ~GrammarIs(result.name, "modifiers")
    /\ ~GrammarIs(result.return.type, "modifiers")
    /\ \A i \in 1..Len(result.params) :
         /\ ~GrammarIs(result.params[i].name, "modifiers")
         /\ ~GrammarIs(result.params[i].type, "modifiers")

\* C18: within a parse run kind is assigned at most once: once it is Class,
\* Function or Variable, no later token changes it.
C18_KindSetOnce ==
  [][(pc = "scan" /\ st.symbols.type # NoKind) => st'.symbols.type = st.symbols.type]_vars

\* C19: in every state of a parse run and in the returned record the
\* parameter list is non-empty only if kind = Function.
C19_ParamsOnlyOfFunction ==
  /\ pc \in {"scan", "done"} =>
       (st.symbols.params # <<>> => st.symbols.type = KindFunction)
  /\ pc = "done" => (result.params # <<>> => result.type = KindFunction)

\* C20: within a parse run the name is assigned at most once: once it is
\* set, no later token changes it.
C20_NameSetOnce ==
  [][(pc = "scan" /\ st.symbols.name # <<>>) => st'.symbols.name = st.symbols.name]_vars

\* C21: the name of a parameter is assigned once: a step of the run leaves
\* every name that is already there as it is, and the step that names a
\* typed parameter clears expectParameterType, so that a later variable
\* name is appended as a parameter of its own.
C21_ParameterNamedOnce ==
  [][pc = "scan" =>
       /\ Len(st'.symbols.params) >= Len(st.symbols.params)
       /\ \A i \in 1..Len(st.symbols.params) :
            /\ st.symbols.params[i].name # <<>> =>
                 st'.symbols.params[i].name = st.symbols.params[i].name
            /\ (st.symbols.params[i].name = <<>> /\ st'.symbols.params[i].name # <<>>) =>
                 ~st'.expectParameterType]_vars

\* C22: done is terminal: once it is true it stays true for the rest of
\* the run, and no remaining token changes the name or the kind.
C22_DoneTerminal ==
  [][(pc = "scan" /\ st.done) =>
       /\ st'.done
       /\ st'.symbols.name = st.symbols.name
       /\ st'.symbols.type = st.symbols.type]_vars

\* `function ( class Bar function`: the function keyword came after done,
\* inside the parameter list that was still open
C22_Witness ==
  /\ pc = "scan"
  /\ line = <<T_function, T_lparen, T_class, T_Bar, T_function>>
  /\ pos = 6
  /\ st.done
  /\ st.expectParameter
  /\ st.symbols.type = KindClass

\* C23: while a parameter list is open a colon does not set
\* expectReturnType and no token is captured as the return type; the return
\* type is only assigned from an identifier-shaped token met while
\* expectReturnType is set, and that assignment clears the flag.  (The `[]`
\* an opening bracket appends is the matter of C24 and left aside here.)
C23_ReturnTypeOutsideList ==
  [][(pc = "scan" /\ pos <= Len(line) /\ pos' = pos + 1 /\ line[pos].label # "[") =>
       /\ (st.expectParameter /\ line[pos].label = ":") =>
            st'.expectReturnType = st.expectReturnType
       /\ st.expectParameter => st'.symbols.return.type = st.symbols.return.type
       /\ st'.symbols.return.type # st.symbols.return.type =>
            /\ st.expectReturnType
            /\ matchesIdentifier(line[pos].value)
            /\ st'.symbols.return.type = line[pos].value
            /\ ~st'.expectReturnType]_vars

\* C24: an opening bracket met while kind = Function and no return type
\* has been captured leaves the return type absent; `[]` is appended only
\* to a captured return type.
C24_BracketAfterReturnType ==
  [][(pc = "scan" /\ pos <= Len(line) /\ pos' = pos + 1 /\ line[pos].label = "[") =>
       IF st.symbols.return.type = Undefined
       THEN st'.symbols.return.type = Undefined
       ELSE st'.symbols.return.type \in
              {st.symbols.return.type, st.symbols.return.type \o S_brackets}]_vars

(***************************************************************************)
(* Properties of the classifiers.                                          *)
(***************************************************************************)
\* the shape of a class name: a letter or `_`, then letters, digits and `_`
ClassNameShaped(text) ==
  /\ Len(text) > 0
  /\ \A i \in 1..Len(text) :
       text[i] \in LowerCase \cup UpperCase \cup {"_"} \cup (IF i > 1 THEN Digit ELSE {})

\* the class, function, modifier and variable keywords
Keywords ==
  Grammar["class"] \cup Grammar["function"] \cup Grammar["modifiers"] \cup Grammar["variables"]

\* C25: isType(t) is false for every class, function, modifier or variable
\* keyword, true for every built-in type and for every class-name-shaped
\* identifier that is no such keyword, and false for a name that begins
\* with `$`.
C25_IsType ==
  (cl.op = "isType" /\ cl.called) =>
    /\ cl.token \in Keywords => ~cl.result
    /\ cl.token \in Grammar["types"] => cl.result
    /\ (ClassNameShaped(cl.token) /\ cl.token \notin Keywords) => cl.result
    /\ (Len(cl.token) > 0 /\ cl.token[1] = "$") => ~cl.result

\* isType has refused `static`, a keyword that has the shape of a class name
C25_Witness ==
  /\ cl.op = "isType"
  /\ cl.called
  /\ cl.token = S_static
  /\ ClassNameShaped(cl.token)
  /\ ~cl.result

(***************************************************************************)
(* Properties of the rendered block, continued.                            *)
(***************************************************************************)
\* the lines of a block that follow a blank line and carry the tag,
\* without the per-line prefix
SectionRows(block, tag) ==
  LET lines == SplitLines(block)
  IN SelectSeq([i \in 1..Len(lines) |->
                  IF i > 1 /\ lines[i - 1] = S_separator /\ StartsWith(lines[i], S_separator)
                  THEN Unprefixed(lines[i]) ELSE <<>>],
               LAMBDA row : StartsWith(row, tag))

\* C26: the block has the `@return` section, a blank line and then one
\* `@return` line, exactly when returnInfo.present is true, defaultReturnTag
\* is enabled and kind is not Variable; its placeholder is seeded with the
\* captured return type when there is one and with `[type]` otherwise.
C26_ReturnSection ==
  \A k \in 1..Len(rb.out) :
    rb.out[k] # TypeError =>
      LET rows == TagRows(rb.out[k], S_return)
          enabled == /\ rb.tokens.return.present
                     /\ rb.defaultReturnTag
                     /\ rb.tokens.type # KindVariable
      IN IF enabled
         THEN /\ Len(rows) = 1
              /\ SectionRows(rb.out[k], S_return) = rows
              /\ Cardinality(PlaceholderStarts(rows[1])) = 1
              /\ Display(PlaceholderSeed(rows[1], Nth(PlaceholderStarts(rows[1]), 1)))
                   = IF Truthy(rb.tokens.return.type)
                     THEN rb.tokens.return.type ELSE S_typeSeed
         ELSE Len(rows) = 0

\* a class has been rendered with the return tag disabled: no `@return`
\* line although returnInfo.present is true
C26_Witness ==
  /\ Len(rb.out) >= 1
  /\ rb.tokens.type = KindClass
  /\ rb.tokens.return.present
  /\ ~rb.defaultReturnTag
  /\ Len(TagRows(rb.out[1], S_return)) = 0

\* C27: the block has the `@var` section, a blank line and then one `@var`
\* line with a `[type]` placeholder, exactly when kind = Variable; a block
\* with a `@var` line has no `@return` line and no `@param` line.
C27_VarSection ==
  \A k \in 1..Len(rb.out) :
    rb.out[k] # TypeError =>
      LET rows == TagRows(rb.out[k], S_var)
      IN /\ IF rb.tokens.type = KindVariable
            THEN /\ Len(rows) = 1
                 /\ SectionRows(rb.out[k], S_var) = rows
                 /\ Cardinality(PlaceholderStarts(rows[1])) = 1
                 /\ PlaceholderSeed(rows[1], Nth(PlaceholderStarts(rows[1]), 1)) = S_typeSeed
            ELSE Len(rows) = 0
         /\ Len(rows) > 0 =>
              /\ Len(TagRows(rb.out[k], S_return)) = 0
              /\ Len(TagRows(rb.out[k], S_param)) = 0

\* a variable record that has a parameter and returnInfo.present = true has
\* been rendered with the return tag enabled: a `@var` line and no other tag
C27_Witness ==
  /\ Len(rb.out) >= 1
  /\ rb.tokens.type = KindVariable
  /\ Len(rb.tokens.params) = 1
  /\ rb.tokens.return.present
  /\ rb.defaultReturnTag
  /\ Len(TagRows(rb.out[1], S_var)) = 1
  /\ Len(TagRows(rb.out[1], S_param)) = 0

\* the token is a member of the category of settings.grammer
GrammerMember(token, category) ==
  IF Grammer[category].array
  THEN token \in Grammer[category].items
  ELSE token = Grammer[category].value

\* C28: matchesGrammer(token, category) with a named category is true
\* exactly when the token is a member of that category, and with no category
\* exactly when the token is a member of at least one category, the
\* list-valued ones included.
C28_MatchesGrammer ==
  (cl.op = "matchesGrammer" /\ cl.called) =>
    IF cl.category = ""
    THEN cl.result = (\E category \in GrammerCategories : GrammerMember(cl.token, category))
    ELSE cl.result = GrammerMember(cl.token, cl.category)

\* among the first n tokens of the line an opening parenthesis stands behind
\* a function keyword: the parameter list has been opened
ParenthesisWithin(l, n) ==
  \E i, j \in 1..n : i < j /\ l[i].value \in Grammar["function"] /\ l[j].label = "("

\* C29: in a run with kind = Function the name is taken only from a token
\* in front of the opening parenthesis of the parameter list: no token
\* behind a `(` is recorded as the name, so that the name of
\* `function (...)` stays empty.
C29_NameBeforeParenthesis ==
  [][(/\ pc = "scan"
      /\ pc' = "scan"
      /\ st'.symbols.type = KindFunction
      /\ st'.symbols.name # st.symbols.name)
       => ~ParenthesisWithin(line, pos)]_vars

\* the comma-separated slots of the parameter list of a line that has one
\* `(` and one `)`: none when the list is empty, else one more than commas
Slots(l) ==
  LET open == CHOOSE i \in 1..Len(l) : l[i].label = "("
      close == CHOOSE i \in 1..Len(l) : l[i].label = ")"
  IN IF close = open + 1
     THEN 0
     ELSE 1 + Cardinality({i \in (open + 1)..(close - 1) : l[i].label = ","})

\* C30: the record of a function declaration has no more parameters than
\* its parameter list has comma-separated slots, a default value appends
\* no parameter, and every parameter of the returned record has a
\* non-empty name.
C30_ParametersWithinSlots ==
  (pc = "done" /\ line \in FunctionLines \cup DefaultValueLines) =>
    /\ Len(result.params) <= Slots(line)
    /\ \A i \in 1..Len(result.params) : result.params[i].name # <<>>

\* C31: renderBlock returns a comment text and raises no error for every
\* record a parse run produces, among them the records whose parameters
\* partly have a captured type and partly have none, and the records with
\* no parameter.
C31_RenderNeverRaises ==
  \A k \in 1..Len(rb.out) : rb.out[k] # TypeError

====
